---- MODULE Spec2Model ----
(***************************************************************************)
(* Model of mdspp::List<T> (Sources/List.hpp): an array list with a        *)
(* separately tracked size_ and capacity_, Python-like negative indices,   *)
(* geometric growth up to MAX_CAPACITY and in-place manipulation.          *)
(*                                                                         *)
(* A list value is a record [size, capacity, data].  data holds the live   *)
(* slots [0, size) of the buffer, C++ slot i being data[i + 1]; the slots  *)
(* [size, capacity) are never read by the operations modelled here.        *)
(* Every operation is an operator from a list (and its arguments) to an    *)
(* outcome [l, err, nexp, ret]: the list afterwards, the error thrown      *)
(* ("none" when it returns), the number of calls of expand_capacity, and   *)
(* the returned elements.                                                  *)
(*                                                                         *)
(* int is modelled with INT_MAX = 11 instead of 2^31 - 1, so that lists    *)
(* of MAX_CAPACITY elements are reachable; INT_MAX stays odd, as in C++,   *)
(* which keeps MAX_CAPACITY even.                                          *)
(***************************************************************************)
EXTENDS Integers, Sequences, FiniteSets, TLC

VARIABLES size_, capacity_, data_, last

vars == <<size_, capacity_, data_, last>>

----------------------------------------------------------------------------
(* Program constants *)

INT_MAX == 11

INIT_CAPACITY == 4

MAX_CAPACITY == INT_MAX - 1

(* Bounds of the model *)

\* longest initializer list handed to a constructor
MaxInitLen == 7

\* longest list handed to an assignment, a swap or a concatenation
MaxOtherLen == 2

\* largest repeat count tried (the smallest is -1)
MaxTimes == 3

\* longest list of the slicing specification
MaxSliceLen == 3

\* largest slice step tried, in either direction
MaxStep == 2

\* the smallest start handed to find is -MaxBefore
MaxBefore == 2

\* what the memory in front of a buffer may hold, slot by slot
Garbage == {0, 1}

\* longest list of the reordering specification
MaxSortLen == 4

\* element values of the main specification, a type of one value: there a list
\* is its size and its capacity
Unit == {0}

\* element values of the content specification
T == {0, 1}

\* the lists of the slicing specification hold the elements 0, 1, ..., each
\* element naming the slot it was built into
Iota(k) == [i \in 1 .. k |-> i - 1]

\* element values of the reordering specification: key e \div 2, tag e % 2
TagT == 0 .. 3

SeqsUpTo(S, n) == UNION {[1 .. k -> S] : k \in 0 .. n}

\* initializer lists over the elements E: every short one, and longer ones of
\* equal elements
Ils(E) == SeqsUpTo(E, MaxOtherLen) \cup {[i \in 1 .. k |-> 0] : k \in 0 .. MaxInitLen}

\* index arguments tried on a list of the given size: both ends of the accepted
\* range in both notations, their neighbours inside and the first index
\* rejected on either side
Indexes(size) == {-size - 2, -size - 1, -size, -size + 1, -1, 0, 1, size - 1, size, size + 1}

----------------------------------------------------------------------------
(* Validators (common/check_*.hpp) *)

\* TRUE when the validator throws
check_bounds(pos, begin, end) == pos < begin \/ pos >= end

check_empty(size) == size = 0

check_full(size, capacity) == size = capacity

----------------------------------------------------------------------------
(* Outcomes *)

Ok(l, n) == [l |-> l, err |-> "none", nexp |-> n, ret |-> <<>>]

OkRet(l, r) == [l |-> l, err |-> "none", nexp |-> 0, ret |-> r]

Throw(l, e) == [l |-> l, err |-> e, nexp |-> 0, ret |-> <<>>]

----------------------------------------------------------------------------
(* Construction and assignment *)

\* List()
List == [size |-> 0, capacity |-> INIT_CAPACITY, data |-> <<>>]

\* List(const std::initializer_list<T>& il)
ListIl(il) ==
    [size |-> Len(il),
     capacity |-> IF Len(il) >= INIT_CAPACITY THEN Len(il) ELSE INIT_CAPACITY,
     data |-> [i \in 1 .. Len(il) |-> il[i]]]

\* List(const List<T>& that)
ListCopy(that) ==
    [size |-> that.size,
     capacity |-> that.capacity,
     data |-> [i \in 1 .. that.size |-> that.data[i]]]

\* List(List<T>&& that): the new list and what is left of that
ListMove(that) ==
    [l |-> [size |-> that.size, capacity |-> that.capacity, data |-> that.data],
     that |-> [size |-> 0, capacity |-> INIT_CAPACITY, data |-> <<>>]]

\* operator=(const List<T>& that); same is this == &that
CopyAssign(l, that, same) ==
    IF ~same
    THEN [size |-> that.size,
          capacity |-> that.capacity,
          data |-> [i \in 1 .. that.size |-> that.data[i]]]
    ELSE l

\* operator=(List<T>&& that); same is this == &that
MoveAssign(l, that, same) ==
    IF ~same
    THEN [l |-> [size |-> that.size, capacity |-> that.capacity, data |-> that.data],
          that |-> [size |-> 0, capacity |-> INIT_CAPACITY, data |-> <<>>]]
    ELSE [l |-> l, that |-> l]

\* swap(List& that)
swap(l, that) == [l |-> that, that |-> l]

----------------------------------------------------------------------------
(* Capacity, insert, remove *)

expand_capacity_always_double(l) ==
    [l EXCEPT !.capacity = l.capacity * 2]

expand_capacity_to_max(l) ==
    [l EXCEPT !.capacity = MAX_CAPACITY]

expand_capacity(l) ==
    [l EXCEPT !.capacity =
        IF l.capacity < MAX_CAPACITY \div 2 THEN l.capacity * 2 ELSE MAX_CAPACITY]

\* for (int i = size_; i > index; --i) data_[i] = data_[i - 1];
RECURSIVE InsertShift(_, _, _)
InsertShift(d, i, index) ==
    IF i > index
    THEN InsertShift([d EXCEPT ![i + 1] = d[i]], i - 1, index)
    ELSE d

insert(l, index, element) ==
    IF check_full(l.size, MAX_CAPACITY) THEN Throw(l, "CapacityExceeded")
    ELSE IF check_bounds(index, -l.size, l.size + 1) THEN Throw(l, "IndexOutOfRange")
    ELSE
        LET grown == IF l.size = l.capacity THEN expand_capacity(l) ELSE l
            idx == IF index >= 0 THEN index ELSE index + l.size
            \* slot size_ of the buffer is written before it is read
            shifted == InsertShift(Append(grown.data, element), l.size, idx)
        IN  Ok([size |-> l.size + 1,
                capacity |-> grown.capacity,
                data |-> [shifted EXCEPT ![idx + 1] = element]],
               IF l.size = l.capacity THEN 1 ELSE 0)

\* for (int i = index + 1; i < size_; ++i) data_[i - 1] = data_[i];
RECURSIVE RemoveShift(_, _, _)
RemoveShift(d, i, size) ==
    IF i < size
    THEN RemoveShift([d EXCEPT ![i] = d[i + 1]], i + 1, size)
    ELSE d

remove(l, index) ==
    IF check_empty(l.size) THEN Throw(l, "EmptyContainer")
    ELSE IF check_bounds(index, -l.size, l.size) THEN Throw(l, "IndexOutOfRange")
    ELSE
        LET idx == IF index >= 0 THEN index ELSE index + l.size
            element == l.data[idx + 1]
            shifted == RemoveShift(l.data, idx + 1, l.size)
        IN  OkRet([size |-> l.size - 1,
                   capacity |-> l.capacity,
                   data |-> SubSeq(shifted, 1, l.size - 1)],
                  <<element>>)

\* operator[](int index)
at(l, index) ==
    IF check_bounds(index, -l.size, l.size) THEN Throw(l, "IndexOutOfRange")
    ELSE OkRet(l, <<IF index >= 0 THEN l.data[index + 1] ELSE l.data[l.size + index + 1]>>)

----------------------------------------------------------------------------
(* Examination *)

\* data_[i] for i < size_.  A negative i is a read in front of the buffer,
\* which C++ leaves undefined: it yields before[i], whatever the memory there
\* holds.
Slot(l, i, before) == IF i >= 0 THEN l.data[i + 1] ELSE before[i]

\* for (int i = start; i < stop; ++i) if (data_[i] == element) return i;
\* reads collects the positions i whose data_[i] was read
RECURSIVE FindLoop(_, _, _, _, _, _)
FindLoop(l, element, i, stop, before, reads) ==
    IF i < stop
    THEN IF Slot(l, i, before) = element
         THEN [index |-> i, reads |-> reads \cup {i}]
         ELSE FindLoop(l, element, i + 1, stop, before, reads \cup {i})
    ELSE [index |-> -1, reads |-> reads]

\* the value returned and the positions read
find(l, element, start, stop, before) ==
    FindLoop(l, element, start, IF stop > l.size THEN l.size ELSE stop, before, {})

RECURSIVE CountLoop(_, _, _, _)
CountLoop(l, element, i, counter) ==
    IF i < l.size
    THEN CountLoop(l, element, i + 1,
                   IF l.data[i + 1] = element THEN counter + 1 ELSE counter)
    ELSE counter

count(l, element) == CountLoop(l, element, 0, 0)

RECURSIVE MinLoop(_, _, _)
MinLoop(l, i, smallest) ==
    IF i < l.size
    THEN MinLoop(l, i + 1, IF smallest > l.data[i + 1] THEN l.data[i + 1] ELSE smallest)
    ELSE smallest

min(l) ==
    IF check_empty(l.size) THEN Throw(l, "EmptyContainer")
    ELSE OkRet(l, <<MinLoop(l, 0, l.data[1])>>)

RECURSIVE MaxLoop(_, _, _)
MaxLoop(l, i, largest) ==
    IF i < l.size
    THEN MaxLoop(l, i + 1, IF largest < l.data[i + 1] THEN l.data[i + 1] ELSE largest)
    ELSE largest

max(l) ==
    IF check_empty(l.size) THEN Throw(l, "EmptyContainer")
    ELSE OkRet(l, <<MaxLoop(l, 0, l.data[1])>>)

----------------------------------------------------------------------------
(* Manipulation *)

\* operator+=(const T& element)
append(l, element) == insert(l, l.size, element)

\* for (int i = 0; i < n; i++) *this += src[i];  an exception leaves the loop
\* with the elements appended so far in place
RECURSIVE AppendLoop(_, _, _, _, _)
AppendLoop(l, src, i, n, nexp) ==
    IF i < n
    THEN LET r == append(l, src[i + 1])
         IN  IF r.err # "none"
             THEN [l |-> r.l, err |-> r.err, nexp |-> nexp, ret |-> <<>>]
             ELSE AppendLoop(r.l, src, i + 1, n, nexp + r.nexp)
    ELSE Ok(l, nexp)

\* operator+=(const List& list) with this != &list
concat(l, list) == AppendLoop(l, list.data, 0, list.size, 0)

\* the loop of operator+= run on the list itself, without the saved copy: its
\* bound list.size_ grows with every element appended
RECURSIVE ConcatAliasedLoop(_, _, _)
ConcatAliasedLoop(l, i, nexp) ==
    IF i < l.size
    THEN LET r == append(l, l.data[i + 1])
         IN  IF r.err # "none"
             THEN [l |-> r.l, err |-> r.err, nexp |-> nexp, ret |-> <<>>]
             ELSE ConcatAliasedLoop(r.l, i + 1, nexp + r.nexp)
    ELSE Ok(l, nexp)

concat_self_without_copy(l) == ConcatAliasedLoop(l, 0, 0)

\* operator+=(const List& list) with this == &list
concat_self(l) ==
    LET saved_list == ListCopy(l)
    IN  AppendLoop(l, saved_list.data, 0, saved_list.size, 0)

\* operator-=(const T& element)
remove_element(l, element) ==
    \* find(element): from start 0 nothing in front of the buffer is read
    LET index == find(l, element, 0, MAX_CAPACITY + 1, <<>>).index
    IN  IF index # -1
        THEN LET r == remove(l, index) IN [r EXCEPT !.ret = <<>>]
        ELSE Ok(l, 0)

RECURSIVE RepeatLoop(_, _, _, _)
RepeatLoop_one_more(list, l, i, times) ==
    IF i <= times
    THEN LET r == concat(list, l)
         IN  IF r.err # "none" THEN r ELSE RepeatLoop(r.l, l, i + 1, times)
    ELSE Ok(list, 0)

\* for (int i = 0; i < times; i++) list += *this;
RepeatLoop(list, l, i, times) ==
    IF i < times
    THEN LET r == concat(list, l)
         IN  IF r.err # "none" THEN r ELSE RepeatLoop(r.l, l, i + 1, times)
    ELSE Ok(list, 0)

\* operator*=(int times)
repeat(l, times) ==
    IF times < 0 THEN Throw(l, "InvalidArgument")
    ELSE LET r == RepeatLoop(List, l, 0, times)
         IN  IF r.err # "none" THEN Throw(l, r.err)
             ELSE Ok(CopyAssign(l, r.l, FALSE), 0)

clear(l) ==
    IF l.size # 0
    THEN [size |-> 0, capacity |-> INIT_CAPACITY, data |-> <<>>]
    ELSE l

\* for (int i = 0, j = size_ - 1; i < j; ++i, --j) swap(data_[i], data_[j]);
RECURSIVE ReverseLoop(_, _, _)
ReverseLoop(d, i, j) ==
    IF i < j
    THEN ReverseLoop([d EXCEPT ![i + 1] = d[j + 1], ![j + 1] = d[i + 1]], i + 1, j - 1)
    ELSE d

reverse(l) == [l EXCEPT !.data = ReverseLoop(l.data, 0, l.size - 1)]

\* while (count(data_[i]) > 1) *this -= data_[i];
RECURSIVE UniquifyWhile(_, _)
UniquifyWhile(l, i) ==
    IF count(l, l.data[i + 1]) > 1
    THEN UniquifyWhile(remove_element(l, l.data[i + 1]).l, i)
    ELSE l

\* for (int i = 0; i < size_; i++)
RECURSIVE UniquifyLoop(_, _)
UniquifyLoop(l, i) ==
    IF i < l.size THEN UniquifyLoop(UniquifyWhile(l, i), i + 1) ELSE l

uniquify(l) == UniquifyLoop(l, 0)

\* The comparators handed to sort: the default [](e1, e2) { return e1 < e2; },
\* and two that order elements by their key only
Comparators == {"less", "key_less", "key_greater"}

comparator(c, e1, e2) ==
    CASE c = "less" -> e1 < e2
      [] c = "key_less" -> e1 \div 2 < e2 \div 2
      [] c = "key_greater" -> e1 \div 2 > e2 \div 2

RECURSIVE SortPass(_, _, _, _, _)
SortPass_not_strict(d, j, stop, c, swapped) ==
    IF j < stop
    THEN IF ~comparator(c, d[j + 1], d[j + 2])
         THEN SortPass([d EXCEPT ![j + 1] = d[j + 2], ![j + 2] = d[j + 1]],
                       j + 1, stop, c, TRUE)
         ELSE SortPass(d, j + 1, stop, c, swapped)
    ELSE [d |-> d, swapped |-> swapped]

\* for (int j = 0; j < size_ - i - 1; j++) if (comparator(data_[j + 1], data_[j])) swap
SortPass(d, j, stop, c, swapped) ==
    IF j < stop
    THEN IF comparator(c, d[j + 2], d[j + 1])
         THEN SortPass([d EXCEPT ![j + 1] = d[j + 2], ![j + 2] = d[j + 1]],
                       j + 1, stop, c, TRUE)
         ELSE SortPass(d, j + 1, stop, c, swapped)
    ELSE [d |-> d, swapped |-> swapped]

\* for (int i = 0; i < size_ - 1; i++) { pass; if (swapped == false) break; }
RECURSIVE SortLoop(_, _, _, _)
SortLoop(d, i, size, c) ==
    IF i < size - 1
    THEN LET p == SortPass(d, 0, size - i - 1, c, FALSE)
         IN  IF p.swapped = FALSE THEN p.d ELSE SortLoop(p.d, i + 1, size, c)
    ELSE d

sort(l, c) == [l EXCEPT !.data = SortLoop(l.data, 0, l.size, c)]

----------------------------------------------------------------------------
(* Production *)

RECURSIVE SliceLoop(_, _, _, _, _)
SliceLoop_stops_early(list, l, i, stop, step) ==
    IF (IF step > 0 THEN i < stop - 1 ELSE i > stop)
    THEN LET r == append(list, l.data[i + 1])
         IN  IF r.err # "none" THEN r ELSE SliceLoop(r.l, l, i + step, stop, step)
    ELSE Ok(list, 0)

\* for (int i = start; (step > 0) ? (i < stop) : (i > stop); i += step) list += data_[i];
SliceLoop(list, l, i, stop, step) ==
    IF (IF step > 0 THEN i < stop ELSE i > stop)
    THEN LET r == append(list, l.data[i + 1])
         IN  IF r.err # "none" THEN r ELSE SliceLoop(r.l, l, i + step, stop, step)
    ELSE Ok(list, 0)

slice_stop_below_size(l, start, stop, step) ==
    IF step = 0 THEN Throw(l, "InvalidArgument")
    ELSE IF check_bounds(start, -l.size, l.size) THEN Throw(l, "IndexOutOfRange")
    ELSE IF check_bounds(stop, -l.size - 1, l.size) THEN Throw(l, "IndexOutOfRange")
    ELSE
        LET start1 == IF start < 0 THEN start + l.size ELSE start
            stop1 == IF stop < 0 THEN stop + l.size ELSE stop
            r == SliceLoop(List, l, start1, stop1, step)
        IN  IF r.err # "none" THEN Throw(l, r.err) ELSE OkRet(l, r.l.data)

\* the outcome's l is the receiver, its ret the data of the returned list
slice(l, start, stop, step) ==
    IF step = 0 THEN Throw(l, "InvalidArgument")
    ELSE IF check_bounds(start, -l.size, l.size) THEN Throw(l, "IndexOutOfRange")
    ELSE IF check_bounds(stop, -l.size - 1, l.size + 1) THEN Throw(l, "IndexOutOfRange")
    ELSE
        LET start1 == IF start < 0 THEN start + l.size ELSE start
            stop1 == IF stop < 0 THEN stop + l.size ELSE stop
            r == SliceLoop(List, l, start1, stop1, step)
        IN  IF r.err # "none" THEN Throw(l, r.err) ELSE OkRet(l, r.l.data)

----------------------------------------------------------------------------
(* The list under observation: its three fields, and a record of the last  *)
(* operation: its name, the error it threw, its integer arguments, its     *)
(* list argument, its count of expand_capacity calls and what it returned. *)

this == [size |-> size_, capacity |-> capacity_, data |-> data_]

NoOp == [op |-> "new", err |-> "none", args |-> <<>>, other |-> <<>>,
         nexp |-> 0, ret |-> <<>>]

Becomes(l, op, args, other) ==
    /\ size_' = l.size
    /\ capacity_' = l.capacity
    /\ data_' = l.data
    /\ last' = [op |-> op, err |-> "none", args |-> args, other |-> other,
                nexp |-> 0, ret |-> <<>>]

Outcome(r, op, args, other) ==
    /\ size_' = r.l.size
    /\ capacity_' = r.l.capacity
    /\ data_' = r.l.data
    /\ last' = [op |-> op, err |-> r.err, args |-> args, other |-> other,
                nexp |-> r.nexp, ret |-> r.ret]

Init ==
    /\ size_ = List.size
    /\ capacity_ = List.capacity
    /\ data_ = List.data
    /\ last = NoOp

\* List<T> l{...}
Construct(E) ==
    \E il \in Ils(E) : Becomes(ListIl(il), "List(il)", <<>>, <<>>)

\* List<T> l(that), List<T> l(std::move(that)): the copy, the moved-to list or
\* the moved-from list is observed from here on
CopyConstruct == Becomes(ListCopy(this), "List(copy)", <<>>, <<>>)

MoveConstruct ==
    \/ Becomes(ListMove(this).l, "List(move)", <<>>, <<>>)
    \/ Becomes(ListMove(this).that, "moved-from", <<>>, <<>>)

\* this = that, this = std::move(that), this.swap(that) with that a list built
\* from an initializer list; this = this
Assign(E) ==
    \/ \E il \in SeqsUpTo(E, MaxOtherLen) :
          Becomes(CopyAssign(this, ListIl(il), FALSE), "copy=", <<>>, <<>>)
    \/ Becomes(CopyAssign(this, this, TRUE), "copy=", <<>>, <<>>)
    \/ \E il \in SeqsUpTo(E, MaxOtherLen) :
          Becomes(MoveAssign(this, ListIl(il), FALSE).l, "move=", <<>>, <<>>)
    \/ Becomes(MoveAssign(this, this, TRUE).l, "move=", <<>>, <<>>)

Swap(E) ==
    \E il \in SeqsUpTo(E, MaxOtherLen) :
        Becomes(swap(this, ListIl(il)).l, "swap", <<>>, <<>>)

Access ==
    \E index \in Indexes(size_) : Outcome(at(this, index), "[]", <<>>, <<>>)

MinMax ==
    \/ Outcome(min(this), "min", <<>>, <<>>)
    \/ Outcome(max(this), "max", <<>>, <<>>)

Insert(E) ==
    \E index \in Indexes(size_), element \in E :
        Outcome(insert(this, index, element), "insert", <<index, element>>, <<>>)

Remove ==
    \E index \in Indexes(size_) :
        Outcome(remove(this, index), "remove", <<>>, <<>>)

AppendElement(E) ==
    \E element \in E : Outcome(append(this, element), "append", <<element>>, <<>>)

Concat(E) ==
    \E il \in SeqsUpTo(E, MaxOtherLen) :
        Outcome(concat(this, ListIl(il)), "concat", <<>>, il)

ConcatSelf == Outcome(concat_self(this), "concat_self", <<>>, <<>>)

RemoveElement(E) ==
    \E element \in E :
        Outcome(remove_element(this, element), "remove_element", <<>>, <<>>)

Repeat ==
    \E times \in -1 .. MaxTimes : Outcome(repeat(this, times), "repeat", <<times>>, <<>>)

Clear == Becomes(clear(this), "clear", <<>>, <<>>)

Reverse == Becomes(reverse(this), "reverse", <<>>, <<>>)

Uniquify == Becomes(uniquify(this), "uniquify", <<>>, <<>>)

Sort == \E c \in Comparators : Becomes(sort(this, c), "sort", <<>>, <<c>>)

Slice ==
    \E start \in -size_ - 2 .. size_ + 2, stop \in -size_ - 2 .. size_ + 2,
       step \in -MaxStep .. MaxStep :
        Outcome(slice(this, start, stop, step), "slice", <<start, stop, step>>, <<>>)

\* find(element, start, stop); before is the memory in front of the buffer
Find ==
    \E element \in 0 .. size_, start \in -MaxBefore .. size_ + 2,
       stop \in -MaxBefore .. size_ + 2, before \in [-MaxBefore .. -1 -> Garbage] :
        LET r == find(this, element, start, stop, before)
        IN  /\ UNCHANGED <<size_, capacity_, data_>>
            /\ last' = [op |-> "find", err |-> "none",
                        args |-> <<element, start, stop>>, other |-> <<>>,
                        nexp |-> 0, ret |-> <<r.index>>, reads |-> r.reads]

----------------------------------------------------------------------------
(* The main specification: every operation, on lists of Unit elements *)

Next ==
    \/ Construct(Unit)
    \/ CopyConstruct
    \/ MoveConstruct
    \/ Assign(Unit)
    \/ Swap(Unit)
    \/ Access
    \/ MinMax
    \/ Insert(Unit)
    \/ Remove
    \/ AppendElement(Unit)
    \/ Concat(Unit)
    \/ ConcatSelf
    \/ RemoveElement(Unit)
    \/ Repeat
    \/ Clear
    \/ Reverse
    \/ Uniquify
    \/ Sort

Spec == Init /\ [][Next]_vars

(* The content specification: the operations that grow a list, on lists of *)
(* T elements                                                              *)

NextContent ==
    \/ Construct(T)
    \/ Insert(T)
    \/ Remove
    \/ ConcatSelf
    \/ Repeat

SpecContent == Init /\ [][NextContent]_vars

(* The slicing specification: a list built from an initializer list of      *)
(* distinct elements, then examined                                         *)

InitSlice ==
    \E il \in {Iota(k) : k \in 0 .. MaxSliceLen} :
        /\ size_ = ListIl(il).size
        /\ capacity_ = ListIl(il).capacity
        /\ data_ = ListIl(il).data
        /\ last = NoOp

NextSlice ==
    \/ Slice
    \/ Access
    \/ MinMax

SpecSlice == InitSlice /\ [][NextSlice]_vars

(* The search specification: a list built from an initializer list of       *)
(* distinct elements, then searched                                         *)

NextFind == Find

SpecFind == InitSlice /\ [][NextFind]_vars

(* The reordering specification: a list built from an initializer list over *)
(* TagT, then reordered                                                     *)

InitReorder ==
    \E il \in SeqsUpTo(TagT, MaxSortLen) :
        /\ size_ = ListIl(il).size
        /\ capacity_ = ListIl(il).capacity
        /\ data_ = ListIl(il).data
        /\ last = NoOp

NextReorder ==
    \/ Sort
    \/ Uniquify
    \/ Reverse

SpecReorder == InitReorder /\ [][NextReorder]_vars

----------------------------------------------------------------------------
(* Properties *)

Min(a, b) == IF a < b THEN a ELSE b

Unchanged == size_' = size_ /\ capacity_' = capacity_ /\ data_' = data_

\* d with e put in front of its element at C++ position k
InsertedAt(d, k, e) == SubSeq(d, 1, k) \o <<e>> \o SubSeq(d, k + 1, Len(d))

\* d written n times in a row
Repeated(d, n) == [i \in 1 .. n * Len(d) |-> d[((i - 1) % Len(d)) + 1]]

\* how often e occurs in d
Occurrences(d, e) == Cardinality({i \in 1 .. Len(d) : d[i] = e})

\* C1: in every reachable state 1 <= capacity and
\* 0 <= length <= capacity <= MAX_CAPACITY.
C1_Bounds ==
    /\ 1 <= capacity_
    /\ 0 <= size_
    /\ size_ <= capacity_
    /\ capacity_ <= MAX_CAPACITY

\* a list of MAX_CAPACITY elements has just refused to grow
C1_Witness ==
    /\ size_ = MAX_CAPACITY
    /\ capacity_ = MAX_CAPACITY
    /\ last.err = "CapacityExceeded"

\* C2: an operation that ends with an error leaves the receiver's length,
\* capacity and element sequence as they were before the call.
C2_NoPartialMutation == [][last'.err # "none" => Unchanged]_vars

\* C3: a valid insert calls expand_capacity exactly when length == capacity,
\* a rejected one never; after an expansion the capacity is
\* min(2 * old capacity, MAX_CAPACITY); the list then holds its former elements
\* in their order with the new element at the resolved index.
C3_InsertExpands ==
    [][last'.op = "insert" =>
        LET index == last'.args[1]
            element == last'.args[2]
            valid == size_ # MAX_CAPACITY /\ -size_ <= index /\ index <= size_
            resolved == IF index < 0 THEN index + size_ ELSE index
        IN  /\ last'.err = "none" <=> valid
            /\ last'.nexp = IF valid /\ size_ = capacity_ THEN 1 ELSE 0
            /\ valid =>
                /\ capacity_' = IF size_ = capacity_
                                THEN Min(capacity_ * 2, MAX_CAPACITY)
                                ELSE capacity_
                /\ size_' = size_ + 1
                /\ data_' = InsertedAt(data_, resolved, element)
    ]_vars

\* an insert at a negative index into a list of 8 elements and capacity 8 has
\* expanded it to MAX_CAPACITY, which is less than 16
C3_Witness ==
    /\ last.op = "insert"
    /\ last.err = "none"
    /\ last.nexp = 1
    /\ last.args[1] < 0
    /\ size_ = 9
    /\ capacity_ = MAX_CAPACITY

\* C4: c += c with 2 * length <= MAX_CAPACITY succeeds and yields length
\* 2 * length, both halves equal to the sequence before the call.
C4_SelfConcat ==
    [][last'.op = "concat_self" /\ 2 * size_ <= MAX_CAPACITY =>
        /\ last'.err = "none"
        /\ size_' = 2 * size_
        /\ Len(data_') = 2 * size_
        /\ SubSeq(data_', 1, size_) = data_
        /\ SubSeq(data_', size_ + 1, 2 * size_) = data_
    ]_vars

\* a list of 3 elements, not all equal, was concatenated with itself and
\* expanded on the way
C4_Witness ==
    /\ last.op = "concat_self"
    /\ last.err = "none"
    /\ last.nexp >= 1
    /\ size_ = 6
    /\ data_[1] # data_[2]

\* C8: repeat(times) with times >= 0 and times * length <= MAX_CAPACITY
\* replaces the content by the former sequence written times times (the empty
\* sequence for times = 0); with times < 0 it fails with InvalidArgument and
\* leaves the receiver unchanged.
C8_Repeat ==
    [][last'.op = "repeat" =>
        LET times == last'.args[1]
        IN  /\ times < 0 => last'.err = "InvalidArgument" /\ Unchanged
            /\ times >= 0 /\ times * size_ <= MAX_CAPACITY =>
                /\ last'.err = "none"
                /\ size_' = times * size_
                /\ data_' = Repeated(data_, times)
    ]_vars

\* a list of 3 elements, not all equal, was repeated 3 times
C8_Witness ==
    /\ last.op = "repeat"
    /\ last.err = "none"
    /\ last.args = <<3>>
    /\ size_ = 9
    /\ data_[1] # data_[2]

\* C10: clear() leaves length 0 and capacity INIT_CAPACITY from every state;
\* remove and remove-by-value never change capacity.
C10_ClearResets ==
    [][/\ last'.op = "clear" => size_' = 0 /\ capacity_' = INIT_CAPACITY
       /\ last'.op \in {"remove", "remove_element"} => capacity_' = capacity_
    ]_vars

\* the elements of d at the positions in P, in the order of d
RECURSIVE Pick(_, _, _)
Pick(d, P, i) ==
    IF i > Len(d) THEN <<>>
    ELSE (IF i \in P THEN <<d[i]>> ELSE <<>>) \o Pick(d, P, i + 1)

\* d without the later occurrences of each value
FirstOccurrences(d) ==
    Pick(d, {i \in 1 .. Len(d) : \A j \in 1 .. i - 1 : d[j] # d[i]}, 1)

\* d without the earlier occurrences of each value
LastOccurrences(d) ==
    Pick(d, {i \in 1 .. Len(d) : \A j \in i + 1 .. Len(d) : d[j] # d[i]}, 1)

\* the comparator c orders neither of e1, e2 before the other
Tied(c, e1, e2) == ~comparator(c, e1, e2) /\ ~comparator(c, e2, e1)

\* C5 as stated: slice(0, length, 1) succeeds on every list, the empty one
\* included, and returns a list equal to the receiver, which is unchanged.
C5_FullSliceAlways ==
    [][last'.op = "slice" /\ last'.args = <<0, size_, 1>> =>
        last'.err = "none" /\ last'.ret = data_ /\ Unchanged
    ]_vars

\* C5 amended: on a non-empty list slice(0, length, 1) succeeds and returns a
\* list equal to the receiver; on the empty list it fails with
\* IndexOutOfRange; the receiver is unchanged in both cases.
C5_FullSlice ==
    [][last'.op = "slice" /\ last'.args = <<0, size_, 1>> =>
        /\ Unchanged
        /\ IF size_ > 0
           THEN last'.err = "none" /\ last'.ret = data_
           ELSE last'.err = "IndexOutOfRange"
    ]_vars

\* slice(0, 3, 1) of a list of 3 elements, not all equal, returned its content
C5_Witness ==
    /\ last.op = "slice"
    /\ last.args = <<0, 3, 1>>
    /\ size_ = 3
    /\ last.err = "none"
    /\ last.ret = data_
    /\ data_[1] # data_[3]

\* C6: uniquify() leaves each distinct value of the input exactly once, in
\* the order of the values' first occurrences in the input.
C6_UniquifyFirstSeen ==
    [][last'.op = "uniquify" =>
        /\ \A e \in TagT :
              Occurrences(data_', e) = IF Occurrences(data_, e) > 0 THEN 1 ELSE 0
        /\ data_' = FirstOccurrences(data_)
    ]_vars

\* C7: sort(comparator) leaves a permutation of the former elements in which
\* no element is ordered by the comparator before one placed ahead of it, and
\* elements the comparator ties keep their relative order.
C7_SortStable ==
    [][last'.op = "sort" =>
        LET c == last'.other[1]
        IN  /\ size_' = size_ /\ Len(data_') = Len(data_)
            /\ \A e \in TagT : Occurrences(data_', e) = Occurrences(data_, e)
            /\ \A j, k \in 1 .. Len(data_') :
                  j < k => ~comparator(c, data_'[k], data_'[j])
            /\ \A e \in TagT :
                  Pick(data_', {i \in 1 .. Len(data_') : Tied(c, data_'[i], e)}, 1)
                    = Pick(data_, {i \in 1 .. Len(data_) : Tied(c, data_[i], e)}, 1)
    ]_vars

\* a list sorted by key holds two elements of key 0 with the larger tag first
\* and two of key 1 with the larger tag first
C7_Witness ==
    /\ last.op = "sort"
    /\ last.other = <<"key_less">>
    /\ data_ = <<1, 0, 3, 2>>

\* C9 as stated: with a non-zero step slice is accepted exactly when start is
\* in [-length, length] and stop in [-length - 1, length + 1], and an accepted
\* call with an empty walk returns an empty list.
C9_SliceAcceptsInclusive ==
    last.op = "slice" /\ last.args[3] # 0 =>
        LET start == last.args[1]
            stop == last.args[2]
        IN  last.err # "IndexOutOfRange" <=>
                /\ -size_ <= start /\ start <= size_
                /\ -size_ - 1 <= stop /\ stop <= size_ + 1

\* C9 amended: with a non-zero step slice is accepted exactly when start is
\* in [-length, length - 1] and stop in [-length - 1, length]; an accepted call
\* succeeds, and with an empty walk it returns an empty list.
C9_SliceAccepts ==
    last.op = "slice" /\ last.args[3] # 0 =>
        LET start == last.args[1]
            stop == last.args[2]
            step == last.args[3]
            accepted == /\ -size_ <= start /\ start <= size_ - 1
                        /\ -size_ - 1 <= stop /\ stop <= size_
            start1 == IF start < 0 THEN start + size_ ELSE start
            stop1 == IF stop < 0 THEN stop + size_ ELSE stop
            empty == IF step > 0 THEN start1 >= stop1 ELSE start1 <= stop1
        IN  /\ last.err = (IF accepted THEN "none" ELSE "IndexOutOfRange")
            /\ accepted /\ empty => last.ret = <<>>
            /\ accepted /\ ~empty => last.ret # <<>>

\* slice(2, -4, 1) of a list of 3 elements, its start and stop at the ends of
\* their accepted ranges, returned an empty list
C9_Witness ==
    /\ last.op = "slice"
    /\ last.args = <<2, -4, 1>>
    /\ size_ = 3
    /\ last.err = "none"
    /\ last.ret = <<>>

\* the positions of [start, min(stop, length)) that hold element
Matches(element, start, stop) ==
    {i \in 0 .. size_ - 1 : start <= i /\ i < Min(stop, size_) /\ data_[i + 1] = element}

\* C11: find(element, start, stop) never fails, reads only slots at positions
\* within [0, length), and returns the smallest position i with
\* start <= i < min(stop, length) that holds the element, or -1 if there is
\* none (so -1 on an empty list).
C11_FindInLiveSlots ==
    last.op = "find" =>
        LET element == last.args[1]
            start == last.args[2]
            stop == last.args[3]
            found == Matches(element, start, stop)
        IN  /\ last.err = "none"
            /\ last.reads \subseteq 0 .. size_ - 1
            /\ last.ret = <<IF found = {} THEN -1
                            ELSE CHOOSE i \in found : \A j \in found : i <= j>>
            /\ size_ = 0 => last.ret = <<-1>>

====
